---- MODULE Spec2Model ----
(***************************************************************************)
(* Model of the hybrid retrieval-and-synthesis service of                  *)
(* src/ai-rag-service/main.py: the local retriever                         *)
(* (search_local_knowledge), the web search gateway (search_web_realtime,  *)
(* search_with_serpapi), the answer synthesizer                            *)
(* (generate_response_with_groq, generate_smart_fallback_response) and the *)
(* two request handlers (respond_to_query, respond_with_files).            *)
(*                                                                         *)
(* Text is modelled as a sequence of one-character strings, so that        *)
(* lower(), split(), `x in y`, startswith() and join() are computed as     *)
(* Python computes them.  Scores and confidences are in hundredths         *)
(* (0.98 is 98): the sums the scorer can form out of 0.4, 0.6, 0.3 and 0.2 *)
(* compare with the thresholds 0.3, 0.4, 0.7 and 0.95 exactly as their     *)
(* decimal values do.  None and the empty string are both the empty        *)
(* sequence: every place that reads such a value tests it for truth.       *)
(***************************************************************************)
EXTENDS Integers, Sequences, FiniteSets, TLC

(***************************************************************************)
(* Bounds of the model.                                                    *)
(***************************************************************************)
\* words of the message of a request to /respond and /respond-with-files
MaxQueryWords == 1
\* words of the query in the specification of the local retriever
MaxSearchWords == 2
\* items in one reply of the search provider
MaxProviderItems == 2
\* evidence items handed to the synthesizer in its own specification
MaxSynthSources == 2
\* items in the longest listing of the search provider, in the specification
\* of the web search gateway
MaxListing == 9

(***************************************************************************)
(* Text.                                                                   *)
(***************************************************************************)
w_UG == <<"U","G">>
w_knust == <<"k","n","u","s","t">>
w_fees == <<"f","e","e","s">>
w_scholarship == <<"s","c","h","o","l","a","r","s","h","i","p">>
w_admission == <<"a","d","m","i","s","s","i","o","n">>
w_computer == <<"c","o","m","p","u","t","e","r">>
w_science == <<"s","c","i","e","n","c","e">>
w_medicine == <<"m","e","d","i","c","i","n","e">>
w_hello == <<"h","e","l","l","o">>
s_ug == <<"u","g">>
s_computer_science == <<"c","o","m","p","u","t","e","r"," ","s","c","i","e","n","c","e">>
s_engineering == <<"e","n","g","i","n","e","e","r","i","n","g">>
s_business == <<"b","u","s","i","n","e","s","s">>
s_fee == <<"f","e","e">>
s_cost == <<"c","o","s","t">>
s_program == <<"p","r","o","g","r","a","m">>
s_contact == <<"c","o","n","t","a","c","t">>
s_requirement == <<"r","e","q","u","i","r","e","m","e","n","t">>
s_from == <<"f","r","o","m">>
WebResultPrefix == <<"W","e","b"," ","R","e","s","u","l","t",":">>
url_official == <<"h","t","t","p","s",":","/","/","U","G",".","e","d","u",".","g","h">>
url_other == <<"h","t","t","p","s",":","/","/","x",".","o","r","g">>

n_UG == <<"U","n","i","v","e","r","s","i","t","y"," ","o","f"," ","G","h","a","n","a">>
n_KNUST == <<"K","w","a","m","e"," ","N","k","r","u","m","a","h"," ","U","n","i","v","e","r","s","i","t","y"," ","o","f"," ","S","c","i","e","n","c","e"," ","a","n","d"," ","T","e","c","h","n","o","l","o","g","y">>
n_UCC == <<"U","n","i","v","e","r","s","i","t","y"," ","o","f"," ","C","a","p","e"," ","C","o","a","s","t">>
n_UDS == <<"U","n","i","v","e","r","s","i","t","y"," ","f","o","r"," ","D","e","v","e","l","o","p","m","e","n","t"," ","S","t","u","d","i","e","s">>
n_Unknown == <<"A","s","h","e","s","i">>
n_LocalKB == <<"L","o","c","a","l"," ","K","n","o","w","l","e","d","g","e"," ","B","a","s","e">>
n_FileErr == <<"F","i","l","e"," ","P","r","o","c","e","s","s","i","n","g"," ","E","r","r","o","r">>
n_Uploaded == <<"U","p","l","o","a","d","e","d"," ","F","i","l","e","s">>
s_web_result == <<"W","e","b"," ","R","e","s","u","l","t">>
LineUniversity == <<"U","n","i","v","e","r","s","i","t","y",":">>

None == <<>>

\* str.lower(), one character
LowerChar(c) ==
    LET upper == <<"A","B","C","D","E","F","G","H","I","J","K","L","M",
                   "N","O","P","Q","R","S","T","U","V","W","X","Y","Z">>
        lower == <<"a","b","c","d","e","f","g","h","i","j","k","l","m",
                   "n","o","p","q","r","s","t","u","v","w","x","y","z">>
    IN IF \E i \in 1..26 : upper[i] = c
       THEN lower[CHOOSE i \in 1..26 : upper[i] = c]
       ELSE c

\* str.lower()
Lower(s) == [i \in 1..Len(s) |-> LowerChar(s[i])]

\* needle in hay
Contains(hay, needle) ==
    \/ needle = <<>>
    \/ \E i \in 1..(Len(hay) - Len(needle) + 1) :
          \A k \in 1..Len(needle) : hay[i + k - 1] = needle[k]

\* s.startswith(prefix)
StartsWith(s, prefix) ==
    /\ Len(s) >= Len(prefix)
    /\ \A k \in 1..Len(prefix) : s[k] = prefix[k]

IsSpace(c) == c \in {" ", "\n"}

\* str.split(): the maximal runs of non-whitespace characters, in order
Split(s) ==
    LET starts == {i \in 1..Len(s) : ~IsSpace(s[i]) /\ (i = 1 \/ IsSpace(s[i - 1]))}
        start(k) == CHOOSE i \in starts : Cardinality({j \in starts : j < i}) = k - 1
        end(i) == CHOOSE j \in i..Len(s) :
                      /\ \A m \in i..j : ~IsSpace(s[m])
                      /\ (j = Len(s) \/ IsSpace(s[j + 1]))
    IN [k \in 1..Cardinality(starts) |-> SubSeq(s, start(k), end(start(k)))]

\* sep.join(parts)
RECURSIVE Join(_, _)
Join(parts, sep) ==
    IF parts = <<>> THEN <<>>
    ELSE IF Len(parts) = 1 THEN parts[1]
    ELSE parts[1] \o sep \o Join(Tail(parts), sep)

\* the sequences over S of length at most n
RECURSIVE SeqsUpTo(_, _)
SeqsUpTo(S, n) ==
    IF n = 0 THEN {<<>>}
    ELSE LET shorter == SeqsUpTo(S, n - 1)
         IN shorter \cup {Append(q, x) : q \in {p \in shorter : Len(p) = n - 1}, x \in S}

Min(a, b) == IF a <= b THEN a ELSE b
Max(a, b) == IF a >= b THEN a ELSE b

RECURSIVE MaxOf(_)
MaxOf(xs) == IF Len(xs) = 1 THEN xs[1] ELSE Max(xs[1], MaxOf(Tail(xs)))


(***************************************************************************)
(* The knowledge store.  A value of a record is described by its shape:    *)
(* the code reads the records with dict.get and with indexing, which       *)
(* depend on whether a value is a mapping, and on its keys.                *)
(***************************************************************************)
Dict(keys) == [t |-> "dict", keys |-> keys]
Str == [t |-> "str", keys |-> {}]
List == [t |-> "list", keys |-> {}]
Absent == [t |-> "absent", keys |-> {}]

\* the names of the records, in the order of the dict literal
KnowledgeNames == <<n_UG, n_KNUST, n_UCC, n_UDS>>

\* The literal builds the key current_fees_<year> of the first record from
\* the clock at load time, and the templates read current_fees_2024.  The
\* synthesizer is applied on its own for both cases; the handlers run with a
\* store loaded after 2024.
TemplateYears == {2024, 2026}
Years == {2026}

FeeKeys == {"ghanaian_students", "international_students", "residential_fees", "other_fees"}

GHANA_UNIVERSITIES_KNOWLEDGE(year) ==
    [n \in {KnowledgeNames[i] : i \in 1..Len(KnowledgeNames)} |->
       CASE n = n_UG ->
              [location |-> Str, established |-> Str, motto |-> Str,
               programs |-> Dict({"Computer Science", "Medicine", "Business Administration"}),
               admission_requirements |-> Dict({"general", "application_deadline",
                   "current_application_status", "application_fee", "entrance_exam",
                   "online_portal"}),
               contact |-> Dict({"phone", "email", "address"}),
               website |-> Str,
               current_fees_2024 |-> IF year = 2024
                                     THEN Dict(FeeKeys \cup {"last_updated", "note"})
                                     ELSE Absent,
               fees |-> Absent,
               scholarships |-> Dict({"ug_excellence", "need_based", "sports", "sabre_scholarship"})]
         [] n = n_KNUST ->
              [location |-> Str, established |-> Str, motto |-> Str,
               programs |-> Dict({"Computer Engineering", "Civil Engineering", "Medicine",
                                  "Architecture"}),
               admission_requirements |-> Dict({"general", "science_programs",
                   "application_deadline", "application_fee", "entrance_exam"}),
               contact |-> Dict({"phone", "email", "address"}),
               website |-> Str,
               current_fees_2024 |-> Dict(FeeKeys),
               fees |-> Absent,
               scholarships |-> Dict({"knust_excellence", "mastercard_foundation",
                                      "engineering_scholarship", "ges_scholarship"})]
         [] OTHER ->
              \* University of Cape Coast, University for Development Studies
              [location |-> Str, established |-> Str, motto |-> Str,
               programs |-> List,
               admission_requirements |-> Str,
               contact |-> Str,
               website |-> Str,
               current_fees_2024 |-> Absent,
               fees |-> Str,
               scholarships |-> List]]

\* For each record, the words of the model that occur in
\* f"{uni_name} {json.dumps(uni_data)}".lower()
RecordText(n) ==
    CASE n = n_UG ->
           {s_ug, w_fees, w_scholarship, w_admission, w_computer, w_science, w_medicine,
            s_computer_science, s_business, s_fee, s_program, s_contact, s_requirement,
            s_from}
      [] n = n_KNUST ->
           {w_knust, w_fees, w_scholarship, w_admission, w_computer, w_science, w_medicine,
            s_engineering, s_fee, s_program, s_contact, s_requirement}
      [] n = n_UCC ->
           {w_fees, w_scholarship, w_admission, w_science, s_business, s_fee, s_program,
            s_contact, s_requirement}
      [] n = n_UDS ->
           {s_ug, w_fees, w_scholarship, w_admission, w_medicine, s_engineering, s_fee,
            s_program, s_contact, s_requirement}

\* For each record whose programs are a mapping, and for each program in the
\* order of the mapping, the words of the model that occur in
\* f"{program_name} {json.dumps(program_data)}".lower()
ProgramTexts(n) ==
    CASE n = n_UG ->
           << {w_fees, w_computer, w_science, s_computer_science, s_fee, s_requirement},
              {w_fees, w_medicine, s_fee, s_requirement},
              {w_fees, s_business, s_fee, s_requirement} >>
      [] n = n_KNUST ->
           << {w_knust, w_fees, w_computer, s_engineering, s_fee, s_requirement},
              {w_fees, s_engineering, s_fee, s_requirement},
              {w_fees, w_medicine, s_fee, s_requirement},
              {w_fees, s_fee, s_requirement} >>
      [] OTHER -> << >>

(***************************************************************************)
(* search_local_knowledge                                                  *)
(***************************************************************************)
\* uni_name_variations, in the order of the dict literal
uni_name_variations ==
    << <<<<"u","n","i","v","e","r","s","i","t","y"," ","o","f"," ","g","h","a","n","a">>, n_UG>>,
       <<<<"u","g">>, n_UG>>,
       <<<<"l","e","g","o","n">>, n_UG>>,
       <<<<"k","n","u","s","t">>, n_KNUST>>,
       <<<<"k","w","a","m","e"," ","n","k","r","u","m","a","h">>, n_KNUST>>,
       <<<<"k","u","m","a","s","i">>, n_KNUST>>,
       <<<<"u","c","c">>, n_UCC>>,
       <<<<"c","a","p","e"," ","c","o","a","s","t">>, n_UCC>>,
       <<<<"u","d","s">>, n_UDS>>,
       <<<<"t","a","m","a","l","e">>, n_UDS>> >>

high_keywords == <<s_computer_science, s_engineering, w_medicine, s_business>>
keywords == <<w_admission, s_fee, w_fees, s_cost, s_program, w_scholarship, s_contact,
              s_requirement>>

\* the resolution if the query were never searched for a variation
ResolveFromHintOnly(query_lower, university_name) == university_name

\* the resolution if a hint that names no record were replaced by the first
\* variation found in the query
ResolveUnlessHintKnown(query_lower, university_name) ==
    IF \E k \in 1..Len(KnowledgeNames) : KnowledgeNames[k] = university_name
    THEN university_name
    ELSE LET hits == {i \in 1..Len(uni_name_variations) :
                         Contains(query_lower, uni_name_variations[i][1])}
         IN IF hits = {} THEN university_name
            ELSE uni_name_variations[CHOOSE i \in hits : \A j \in hits : i <= j][2]

\* the first variation found in the query, or the hint when one is given
ResolveUniversity(query_lower, university_name) ==
    IF university_name # None THEN university_name
    ELSE LET hits == {i \in 1..Len(uni_name_variations) :
                         Contains(query_lower, uni_name_variations[i][1])}
         IN IF hits = {} THEN None
            ELSE uni_name_variations[CHOOSE i \in hits : \A j \in hits : i <= j][2]

\* the relevance if a standard keyword weighed as much as a high-value one
RelevanceHeavyKeywords(query_lower, uni_name) ==
    LET query_words == Split(query_lower)
        text == RecordText(uni_name)
        programs == ProgramTexts(uni_name)
        program_hits == Len(SelectSeq(programs,
            LAMBDA p : \E k \in 1..Len(query_words) : query_words[k] \in p))
        high_hits == Len(SelectSeq(high_keywords,
            LAMBDA kw : Contains(query_lower, kw) /\ kw \in text))
        keyword_hits == Len(SelectSeq(keywords,
            LAMBDA kw : Contains(query_lower, kw) /\ kw \in text))
        word_hits == Len(SelectSeq(query_words,
            LAMBDA w : Len(w) > 3 /\ w \in text))
    IN 40 * program_hits + 60 * high_hits + 60 * keyword_hits + 20 * word_hits

\* the additive relevance of one record, before the cap
Relevance(query_lower, uni_name) ==
    LET query_words == Split(query_lower)
        text == RecordText(uni_name)
        programs == ProgramTexts(uni_name)
        program_hits == Len(SelectSeq(programs,
            LAMBDA p : \E k \in 1..Len(query_words) : query_words[k] \in p))
        high_hits == Len(SelectSeq(high_keywords,
            LAMBDA kw : Contains(query_lower, kw) /\ kw \in text))
        keyword_hits == Len(SelectSeq(keywords,
            LAMBDA kw : Contains(query_lower, kw) /\ kw \in text))
        word_hits == Len(SelectSeq(query_words,
            LAMBDA w : Len(w) > 3 /\ w \in text))
    IN 40 * program_hits + 60 * high_hits + 30 * keyword_hits + 20 * word_hits

\* sorted(results, key=relevance, reverse=True): descending and stable
RECURSIVE InsertByRelevance(_, _)
InsertByRelevance(sorted, x) ==
    IF sorted = <<>> THEN <<x>>
    ELSE IF sorted[1].relevance >= x.relevance
         THEN <<sorted[1]>> \o InsertByRelevance(Tail(sorted), x)
         ELSE <<x>> \o sorted

\* the results left in the order in which they were appended
AppendOrder(results) == results

RECURSIVE SortByRelevance(_)
SortByRelevance(results) ==
    IF results = <<>> THEN <<>>
    ELSE InsertByRelevance(SortByRelevance(SubSeq(results, 1, Len(results) - 1)),
                           results[Len(results)])

\* results[:n]
Take(xs, n) == SubSeq(xs, 1, Min(n, Len(xs)))

\* the scan if it did not pass over the record that was added directly
RECURSIVE ScanEveryRecord(_, _, _)
ScanEveryRecord(query_lower, university_name, i) ==
    IF i > Len(KnowledgeNames) THEN <<>>
    ELSE LET uni_name == KnowledgeNames[i]
             relevance == Relevance(query_lower, uni_name)
             rest == ScanEveryRecord(query_lower, university_name, i + 1)
         IN IF relevance > 40
            THEN <<[source |-> uni_name, relevance |-> Min(relevance, 95)]>> \o rest
            ELSE rest

\* the scan if it kept the additive relevance without the cap of 0.95
RECURSIVE ScanUncapped(_, _, _)
ScanUncapped(query_lower, university_name, i) ==
    IF i > Len(KnowledgeNames) THEN <<>>
    ELSE LET uni_name == KnowledgeNames[i]
             relevance == Relevance(query_lower, uni_name)
             rest == ScanUncapped(query_lower, university_name, i + 1)
         IN IF university_name # None /\ uni_name = university_name THEN rest
            ELSE IF relevance > 40
                 THEN <<[source |-> uni_name, relevance |-> relevance]>> \o rest
                 ELSE rest

\* the scan if a record scoring exactly 0.4 were kept
RECURSIVE ScanFromThreshold(_, _, _)
ScanFromThreshold(query_lower, university_name, i) ==
    IF i > Len(KnowledgeNames) THEN <<>>
    ELSE LET uni_name == KnowledgeNames[i]
             relevance == Relevance(query_lower, uni_name)
             rest == ScanFromThreshold(query_lower, university_name, i + 1)
         IN IF university_name # None /\ uni_name = university_name THEN rest
            ELSE IF relevance >= 40
                 THEN <<[source |-> uni_name, relevance |-> Min(relevance, 95)]>> \o rest
                 ELSE rest

\* the records appended by the scan, in the order of the store
RECURSIVE ScanRecords(_, _, _)
ScanRecords(query_lower, university_name, i) ==
    IF i > Len(KnowledgeNames) THEN <<>>
    ELSE LET uni_name == KnowledgeNames[i]
             relevance == Relevance(query_lower, uni_name)
             rest == ScanRecords(query_lower, university_name, i + 1)
         IN IF university_name # None /\ uni_name = university_name THEN rest
            ELSE IF relevance > 40
                 THEN <<[source |-> uni_name, relevance |-> Min(relevance, 95)]>> \o rest
                 ELSE rest

\* search_local_knowledge if its confidence were that of the direct hit only
search_local_knowledge_direct_only(query, hint) ==
    LET query_lower == Lower(query)
        university_name == ResolveUniversity(query_lower, hint)
        known == \E i \in 1..Len(KnowledgeNames) : KnowledgeNames[i] = university_name
        direct == IF university_name # None /\ known
                  THEN <<[source |-> university_name, relevance |-> 98]>>
                  ELSE <<>>
        results == Take(SortByRelevance(direct \o ScanRecords(query_lower, university_name, 1)), 3)
    IN [results |-> results,
        confidence |-> IF direct # <<>> THEN 98 ELSE 0]

search_local_knowledge(query, hint) ==
    LET query_lower == Lower(query)
        university_name == ResolveUniversity(query_lower, hint)
        known == \E i \in 1..Len(KnowledgeNames) : KnowledgeNames[i] = university_name
        direct == IF university_name # None /\ known
                  THEN <<[source |-> university_name, relevance |-> 98]>>
                  ELSE <<>>
        confidence == IF direct # <<>> THEN 98 ELSE 0
        results == Take(SortByRelevance(direct \o ScanRecords(query_lower, university_name, 1)), 3)
    IN [results |-> results,
        confidence |-> IF confidence # 0 THEN confidence
                       ELSE IF results # <<>>
                            THEN MaxOf([i \in 1..Len(results) |-> results[i].relevance])
                            ELSE 0]

(***************************************************************************)
(* The search provider and the web search gateway.                         *)
(***************************************************************************)
t_web_search == <<"w","e","b","_","s","e","a","r","c","h">>
t_official_website == <<"o","f","f","i","c","i","a","l","_","w","e","b","s","i","t","e">>

\* One item of a provider reply: a mapping with a title, a link and a
\* snippet (any of them may be missing), or something that is not a mapping.
ItemOfficial == [dict |-> TRUE, title |-> w_UG, url |-> url_official, snippet |-> w_fees]
ItemOther == [dict |-> TRUE, title |-> None, url |-> url_other, snippet |-> w_hello]
ItemNotDict == [dict |-> FALSE, title |-> None, url |-> None, snippet |-> None]
ProviderItems == {ItemOfficial, ItemOther, ItemNotDict}

\* What a call of the provider can produce: it raises (the provider cannot be
\* reached or imported, or the call times out), it answers something that is
\* not a result listing, or it answers a listing of items.
ProviderReplies ==
    {[kind |-> k, items |-> <<>>] : k \in {"unavailable", "timeout", "malformed"}}
    \cup {[kind |-> "items", items |-> its] : its \in SeqsUpTo(ProviderItems, MaxProviderItems)}

\* Listings longer than the 8 results the gateway asks the provider for
\* (max_results=8, "num": 8) and than the 5 it reads of a SerpAPI answer
LongListings ==
    {[kind |-> "items", items |-> [i \in 1..n |-> item]] :
        n \in 3..MaxListing, item \in {ItemOfficial, ItemOther}}

\* the replies of the provider in the specification of the gateway
GatewayReplies == ProviderReplies \cup LongListings

EmptyWebResult == [results |-> <<>>, confidence |-> 0]

\* the domains of the any(...) of the DuckDuckGo branch
ddg_official_domains ==
    { <<"u","g",".","e","d","u",".","g","h">>,
      <<"k","n","u","s","t",".","e","d","u",".","g","h">>,
      <<"u","c","c",".","e","d","u",".","g","h">>,
      <<"u","d","s",".","e","d","u",".","g","h">>,
      <<"u","p","s","a",".","e","d","u",".","g","h">>,
      <<"u","e","n","r",".","e","d","u",".","g","h">>,
      <<"u","h","a","s",".","e","d","u",".","g","h">> }
\* the domains of the any(...) of search_with_serpapi
serpapi_official_domains ==
    { <<"u","g",".","e","d","u",".","g","h">>,
      <<"k","n","u","s","t",".","e","d","u",".","g","h">>,
      <<"u","c","c",".","e","d","u",".","g","h">>,
      <<"u","d","s",".","e","d","u",".","g","h">>,
      <<"u","p","s","a",".","e","d","u",".","g","h">> }

WebEntry(item, domains) ==
    LET official == \E d \in domains : Contains(Lower(item.url), d)
    IN [title |-> item.title, url |-> item.url, snippet |-> item.snippet,
        source |-> IF official THEN t_official_website ELSE t_web_search,
        priority |-> IF official THEN "high" ELSE "medium"]

\* the body of the try of search_with_serpapi: requests.get raises when the
\* provider cannot be reached or the call times out, response.json() or
\* data.get raises on an answer that is no result listing, and result.get
\* raises on an item that is not a mapping
SerpapiRequest(reply) ==
    IF reply.kind # "items" THEN [ok |-> FALSE, val |-> EmptyWebResult]
    ELSE LET organic == Take(reply.items, 5)
         IN IF \E i \in 1..Len(organic) : ~organic[i].dict
            THEN [ok |-> FALSE, val |-> EmptyWebResult]
            ELSE LET results == [i \in 1..Len(organic) |->
                                    WebEntry(organic[i], serpapi_official_domains)]
                 IN [ok |-> TRUE,
                     val |-> [results |-> results,
                              confidence |-> IF results # <<>> THEN 80 ELSE 0]]

\* search_with_serpapi: the handler of its try returns the empty result
search_with_serpapi(reply) ==
    LET body == SerpapiRequest(reply)
    IN IF body.ok THEN body ELSE [ok |-> TRUE, val |-> EmptyWebResult]

\* the DuckDuckGo part of the try of search_web_realtime: the import or the
\* call raises, or iterating over something that is no listing raises; an
\* item that is not a mapping is skipped
DdgSearch(reply) ==
    IF reply.kind # "items" THEN [ok |-> FALSE, val |-> EmptyWebResult]
    ELSE LET dicts == SelectSeq(reply.items, LAMBDA item : item.dict)
             results == [i \in 1..Len(dicts) |-> WebEntry(dicts[i], ddg_official_domains)]
         IN [ok |-> TRUE,
             val |-> [results |-> results,
                      confidence |-> IF results # <<>> THEN 75 ELSE 0]]

\* search_web_realtime without the handler of its try
search_web_realtime_unguarded(reply, key) ==
    IF key THEN search_with_serpapi(reply) ELSE DdgSearch(reply)

\* search_web_realtime: SerpAPI when a key is configured, DuckDuckGo
\* otherwise; the handler of its try returns the empty result
search_web_realtime(reply, key) ==
    LET body == IF key THEN search_with_serpapi(reply) ELSE DdgSearch(reply)
    IN IF body.ok THEN body ELSE [ok |-> TRUE, val |-> EmptyWebResult]

(***************************************************************************)
(* Evidence and answers.                                                   *)
(***************************************************************************)
t_local_knowledge == <<"l","o","c","a","l","_","k","n","o","w","l","e","d","g","e">>
t_fallback == <<"f","a","l","l","b","a","c","k">>
t_user_files == <<"u","s","e","r","_","f","i","l","e","s">>

\* one element of all_sources; url is None where the code sets no url
Source(source, url, type, confidence) ==
    [source |-> source, url |-> url, type |-> type, confidence |-> confidence]

\* An answer text is the sequence of the pieces it is concatenated from; a
\* bullet carries the title, link and snippet it renders.  kind tells where
\* the text comes from; "None" is a completion without content.
Seg(name) == [seg |-> name, title |-> None, url |-> None, snippet |-> None]
Bullet(r) == [seg |-> "bullet", title |-> r.title, url |-> r.url, snippet |-> r.snippet]
Answer(kind, segs) == [kind |-> kind, segs |-> segs]
NoAnswer == Answer("unset", <<>>)

\* the outcome of a call: a value, or an exception
Return(v) == [ok |-> TRUE, val |-> v]
Raise == [ok |-> FALSE, val |-> Answer("raised", <<>>)]

(***************************************************************************)
(* generate_smart_fallback_response                                        *)
(***************************************************************************)
\* str.strip()
RECURSIVE LStrip(_)
LStrip(s) == IF s # <<>> /\ IsSpace(s[1]) THEN LStrip(Tail(s)) ELSE s
RECURSIVE RStrip(_)
RStrip(s) == IF s # <<>> /\ IsSpace(s[Len(s)]) THEN RStrip(SubSeq(s, 1, Len(s) - 1)) ELSE s
Strip(s) == RStrip(LStrip(s))

\* s.replace(old, ''), old not empty
RECURSIVE Remove(_, _)
Remove(s, old) ==
    IF s = <<>> THEN <<>>
    ELSE IF StartsWith(s, old) THEN Remove(SubSeq(s, Len(old) + 1, Len(s)), old)
         ELSE <<s[1]>> \o Remove(Tail(s), old)

\* x or default
Or(x, default) == IF x # None THEN x ELSE default

\* d.get(key, {}) for a key of a record of the store
GetOrEmpty(field) == IF field.t = "absent" THEN Dict({}) ELSE field

\* value.get(...) raises unless value is a mapping
CanGet(value) == value.t = "dict"

\* key in value, for a mapping
HasKey(value, key) == value.t = "dict" /\ key \in value.keys

\* the web items collected from the evidence
WebItemsOfSources(sources) ==
    LET web == SelectSeq(sources, LAMBDA s :
                   \/ s.type \in {t_web_search, t_official_website}
                   \/ s.source \in {t_web_search, t_official_website})
    IN [i \in 1..Len(web) |->
           [title |-> Or(web[i].source, s_web_result), url |-> Or(web[i].url, None),
            snippet |-> None]]

\* the web items parsed from the lines of the context
WebItemsOfContext(context) ==
    LET lines == SelectSeq(context, LAMBDA line : StartsWith(line, WebResultPrefix))
    IN [i \in 1..Len(lines) |->
           [title |-> s_web_result, url |-> None,
            snippet |-> Strip(Remove(lines[i], WebResultPrefix))]]

\* the answer built from web items: at most five bullets
WebAnswer(web_items) ==
    LET official_items == SelectSeq(web_items, LAMBDA item :
                              \E d \in ddg_official_domains : Contains(Lower(item.url), d))
        prioritized == Take(IF official_items # <<>> THEN official_items ELSE web_items, 5)
    IN Answer("deterministic",
              <<Seg("web_header"), Seg("")>>
              \o [i \in 1..Len(prioritized) |->
                     Bullet([title |-> Or(prioritized[i].title, s_web_result),
                             url |-> prioritized[i].url,
                             snippet |-> prioritized[i].snippet])]
              \o <<Seg(""), Seg("web_footer")>>)

ComputerWords ==
    { <<"c","o","m","p","u","t","e","r"," ","s","c","i","e","n","c","e">>,
      <<"c","o","m","p","u","t","e","r">>,
      <<"p","r","o","g","r","a","m","m","i","n","g">>,
      <<"s","o","f","t","w","a","r","e">> }
FeeWords ==
    { <<"f","e","e">>,
      <<"c","o","s","t">>,
      <<"m","o","n","e","y">>,
      <<"p","a","y">>,
      <<"t","u","i","t","i","o","n">> }
AdmissionWords ==
    { <<"a","d","m","i","s","s","i","o","n">>,
      <<"a","p","p","l","y">>,
      <<"r","e","q","u","i","r","e","m","e","n","t">>,
      <<"e","n","t","r","y">> }

\* the template the query selects when there are no web items
Template(query_lower) ==
    IF \E w \in ComputerWords : Contains(query_lower, w) THEN "computer"
    ELSE IF \E w \in FeeWords : Contains(query_lower, w) THEN "fees"
    ELSE IF \E w \in AdmissionWords : Contains(query_lower, w) THEN "admission"
    ELSE "default"

\* the section of one university in the computer template
ComputerSection(uni_data, program, seg) ==
    IF uni_data.programs.t # "absent" /\ HasKey(uni_data.programs, program)
    THEN IF /\ CanGet(GetOrEmpty(uni_data.contact))
            /\ CanGet(GetOrEmpty(uni_data.current_fees_2024))
            /\ CanGet(GetOrEmpty(uni_data.admission_requirements))
         THEN Return(<<Seg(seg)>>)
         ELSE Raise
    ELSE Return(<<>>)

\* the section of one record in the fees template
FeesSection(uni_data) ==
    IF uni_data.current_fees_2024.t # "absent"
    THEN IF /\ CanGet(uni_data.current_fees_2024)
            /\ CanGet(GetOrEmpty(uni_data.admission_requirements))
            /\ CanGet(GetOrEmpty(uni_data.contact))
         THEN Return(<<Seg("name"), Seg("fees")>>)
         ELSE Raise
    ELSE Return(<<Seg("name")>>)

\* the section of one record in the admission template
AdmissionSection(uni_data) ==
    IF uni_data.admission_requirements.t # "absent"
    THEN IF /\ CanGet(uni_data.admission_requirements)
            /\ CanGet(GetOrEmpty(uni_data.contact))
         THEN Return(<<Seg("name"), Seg("requirements")>>)
         ELSE Raise
    ELSE Return(<<Seg("name")>>)

\* the section of one record in the default template
DefaultSection(uni_data) ==
    IF CanGet(GetOrEmpty(uni_data.contact))
    THEN Return(<<Seg("overview")>>)
    ELSE Raise

\* the sections of all records, in the order of the store; the first
\* section that raises ends the call
RECURSIVE Sections(_, _, _)
Sections(kb, template, i) ==
    IF i > Len(KnowledgeNames) THEN Return(<<>>)
    ELSE LET uni_data == kb[KnowledgeNames[i]]
             head == CASE template = "fees" -> FeesSection(uni_data)
                       [] template = "admission" -> AdmissionSection(uni_data)
                       [] OTHER -> DefaultSection(uni_data)
             rest == Sections(kb, template, i + 1)
         IN IF ~head.ok THEN Raise
            ELSE IF ~rest.ok THEN Raise
            ELSE Return(head.val \o rest.val)

\* the local flow: a fixed template filled from the knowledge store
TemplateAnswer(query_lower, kb) ==
    LET template == Template(query_lower)
    IN CASE template = "computer" ->
              LET ug == ComputerSection(kb[n_UG], "Computer Science", "ug_computer_science")
                  knust == ComputerSection(kb[n_KNUST], "Computer Engineering",
                                           "knust_computer_engineering")
              IN IF ug.ok /\ knust.ok
                 THEN Return(Answer("deterministic",
                          <<Seg("computer_header")>> \o ug.val \o knust.val
                          \o <<Seg("recommendation")>>))
                 ELSE Raise
         [] template = "fees" ->
              LET body == Sections(kb, "fees", 1)
              IN IF body.ok
                 THEN Return(Answer("deterministic",
                          <<Seg("fees_header")>> \o body.val \o <<Seg("fees_note")>>))
                 ELSE Raise
         [] template = "admission" ->
              LET body == Sections(kb, "admission", 1)
              IN IF body.ok
                 THEN Return(Answer("deterministic",
                          <<Seg("admission_header")>> \o body.val \o <<Seg("pro_tip")>>))
                 ELSE Raise
         [] OTHER ->
              LET body == Sections(kb, "default", 1)
              IN IF body.ok
                 THEN Return(Answer("deterministic",
                          <<Seg("default_header")>> \o body.val \o <<Seg("help")>>))
                 ELSE Raise

\* the synthesizer if its local flow summarised the evidence it is given
\* instead of filling a template from the knowledge store
generate_smart_fallback_response_from_evidence(query, context, sources, year) ==
    LET query_lower == Lower(query)
        from_sources == WebItemsOfSources(sources)
        web_items == IF from_sources = <<>> /\ context # <<>>
                     THEN WebItemsOfContext(context)
                     ELSE from_sources
    IN IF web_items # <<>>
       THEN Return(WebAnswer(web_items))
       ELSE IF sources # <<>>
            THEN Return(Answer("deterministic",
                     [i \in 1..Len(sources) |->
                         Bullet([title |-> sources[i].source, url |-> None,
                                 snippet |-> None])]))
            ELSE TemplateAnswer(query_lower, GHANA_UNIVERSITIES_KNOWLEDGE(year))

generate_smart_fallback_response(query, context, sources, year) ==
    LET query_lower == Lower(query)
        from_sources == WebItemsOfSources(sources)
        web_items == IF from_sources = <<>> /\ context # <<>>
                     THEN WebItemsOfContext(context)
                     ELSE from_sources
    IN IF web_items # <<>>
       THEN Return(WebAnswer(web_items))
       ELSE TemplateAnswer(query_lower, GHANA_UNIVERSITIES_KNOWLEDGE(year))

(***************************************************************************)
(* generate_response_with_groq                                             *)
(***************************************************************************)
\* what the completion call of the LLM collaborator can produce: a text, an
\* exception (any failure of the call), or a completion whose content is None
LLMReplies == {"completion", "error", "no_content"}

\* generate_response_with_groq if the handler of its try raised again instead
\* of calling the deterministic strategy
generate_response_with_groq_reraising(query, context, sources, year, client, llm) ==
    IF ~client THEN generate_smart_fallback_response(query, context, sources, year)
    ELSE CASE llm = "completion" -> Return(Answer("llm", <<Seg("completion")>>))
           [] llm = "no_content" -> Return(Answer("None", <<>>))
           [] OTHER -> Raise

\* With no client the deterministic strategy is called inside the try; when
\* it raises, the handler of the try calls it once more with the same
\* arguments, and that call raises out of the function.
generate_response_with_groq(query, context, sources, year, client, llm) ==
    IF ~client THEN generate_smart_fallback_response(query, context, sources, year)
    ELSE CASE llm = "completion" -> Return(Answer("llm", <<Seg("completion")>>))
           [] llm = "no_content" -> Return(Answer("None", <<>>))
           [] OTHER -> generate_smart_fallback_response(query, context, sources, year)

\* the calls generate_response_with_groq makes, in order
GroqEvents(query, context, sources, year, client, llm) ==
    LET det == generate_smart_fallback_response(query, context, sources, year)
        again == IF det.ok THEN <<"deterministic">> ELSE <<"deterministic", "deterministic">>
    IN IF ~client THEN again
       ELSE IF llm = "error" THEN <<"llm">> \o <<"deterministic">>
       ELSE <<"llm">>

(***************************************************************************)
(* State.                                                                  *)
(***************************************************************************)
VARIABLES
    groq_client,   \* TRUE when initialize_services created the Groq client
    db_client,     \* TRUE when initialize_services created the MongoDB client
    serpapi_key,   \* TRUE when SERPAPI_KEY is set in the environment
    year,          \* datetime.now().year when the module was loaded
    rag_logs,      \* the documents inserted into db.rag_logs, in order
    loop,          \* the request whose handler is running on the event loop
    st             \* for each request, the position and the locals of its handler

globals == <<groq_client, db_client, serpapi_key, year>>
vars == <<groq_client, db_client, serpapi_key, year, rag_logs, loop, st>>

Requests == {"r1"}

\* the words a message is made of
Vocabulary == {w_UG, w_knust, w_fees, w_scholarship, w_admission, w_computer, w_science,
               w_medicine, w_hello}

\* the words of the messages sent to the two endpoints: an alias, a word that
\* scores above the gate, a word that scores below it
RequestWords == {w_UG, w_fees, w_scholarship}

\* the messages of at most n words over the words ws
Messages(ws, n) == {Join(m, <<" ">>) : m \in SeqsUpTo(ws, n)}

\* a message whose best record scores exactly 0.70 (0.3 for the keyword and
\* 0.2 for each of its two occurrences as a word)
BoundaryMessage == w_scholarship \o <<" ">> \o w_scholarship

\* the messages sent to the two endpoints
RequestMessages == Messages(RequestWords, MaxQueryWords) \cup {BoundaryMessage}

\* the values of university_name: absent, a record, and a name of no record
Hints == {None, n_UG, n_Unknown}

\* What the upload handling of /respond-with-files leaves behind:
\* the number of entries of file_info, the joined file_contents, and
\* extracted_content.
NoFiles == [file_info |-> 0, file_contents |-> None, extracted_content |-> None]
Uploads ==
    { NoFiles,
      \* a text file: a preview and the extracted text, which no record
      \* matches, so that the message decides the local confidence
      [file_info |-> 1, file_contents |-> w_hello, extracted_content |-> w_hello],
      \* a file whose reading raised: an error line and no file_info entry
      [file_info |-> 0, file_contents |-> <<"e","r","r","o","r">>, extracted_content |-> None] }

NoResponse == [success |-> FALSE, reply |-> NoAnswer, sources |-> <<>>, confidence |-> 0,
               model_used |-> "none"]

\* ChatResponse(...)
ChatResponse(success, reply, sources, confidence, model_used) ==
    [success |-> success, reply |-> reply, sources |-> sources, confidence |-> confidence,
     model_used |-> model_used]

Apology == Answer("static", <<Seg("apology")>>)
FileErrorReply == Answer("static", <<Seg("file_trouble")>>)

Fresh ==
    [pc |-> "idle", endpoint |-> "none", message |-> None, university_name |-> None,
     files |-> NoFiles, reply |-> [kind |-> "none", items |-> <<>>],
     local_results |-> [results |-> <<>>, confidence |-> 0],
     web_results |-> EmptyWebResult,
     all_sources |-> <<>>, combined_context |-> <<>>, final_confidence |-> 0,
     response_text |-> NoAnswer, insert |-> "none", response |-> NoResponse,
     trace |-> <<>>]

Init ==
    /\ groq_client \in BOOLEAN
    /\ db_client \in BOOLEAN
    /\ serpapi_key \in BOOLEAN
    /\ year \in Years
    /\ rag_logs = <<>>
    /\ loop = "free"
    /\ st = [r \in Requests |-> Fresh]

(***************************************************************************)
(* Evidence aggregation.                                                   *)
(***************************************************************************)
\* "\n\n".join(context_parts), as the sequence of its lines; every part is
\* one line here, and two parts are separated by one empty line
RECURSIVE JoinParts(_)
JoinParts(parts) ==
    IF parts = <<>> THEN <<>>
    ELSE IF Len(parts) = 1 THEN <<parts[1]>>
    ELSE <<parts[1], <<>>>> \o JoinParts(Tail(parts))

LocalSources(local_results) ==
    [i \in 1..Len(local_results.results) |->
        Source(local_results.results[i].source, None, t_local_knowledge,
               local_results.results[i].relevance)]

LocalParts(local_results) ==
    [i \in 1..Len(local_results.results) |-> LineUniversity]

\* the web evidence of /respond: the type is the source tag of the result
WebSources(web_results) ==
    [i \in 1..Len(web_results.results) |->
        Source(web_results.results[i].title, web_results.results[i].url,
               web_results.results[i].source, 70)]

\* the web evidence of /respond-with-files: the type is always web_search
WebSourcesOfFiles(web_results) ==
    [i \in 1..Len(web_results.results) |->
        Source(web_results.results[i].title, web_results.results[i].url, t_web_search, 70)]

WebParts(web_results) ==
    [i \in 1..Len(web_results.results) |->
        WebResultPrefix \o <<" ">> \o web_results.results[i].snippet]

\* message plus the text taken from the uploaded files
EnhancedMessage(message, files) ==
    LET \* "\n\n[Extracted content from uploaded files]\n"
        files_header ==
            <<"\n","\n","[","E","x","t","r","a","c","t","e","d"," ","c","o","n","t","e","n","t"," ","f","r","o","m"," ",
              "u","p","l","o","a","d","e","d"," ","f","i","l","e","s","]","\n">>
        \* "\n\n[Document Text]\n"
        document_header ==
            <<"\n","\n","[","D","o","c","u","m","e","n","t"," ","T","e","x","t","]","\n">>
    IN message
       \o (IF files.file_contents # None THEN files_header \o files.file_contents ELSE <<>>)
       \o (IF Strip(files.extracted_content) # None
           THEN document_header \o Strip(files.extracted_content) ELSE <<>>)

\* enhanced_response of /respond-with-files; a reply of None is formatted
\* into the text as the word None
WithFileAnalysis(response_text) ==
    Answer(IF response_text.kind = "None" THEN "llm" ELSE response_text.kind,
           <<Seg("analysis_intro")>>
           \o (IF response_text.kind = "None" THEN <<Seg("None")>> ELSE response_text.segs)
           \o <<Seg("recommendations"), Seg("next_steps")>>)

(***************************************************************************)
(* The handlers respond_to_query and respond_with_files, step by step.  A  *)
(* handler runs on the event loop from one await of the collaborator I/O   *)
(* to the next; the only such await after the start is the insert into     *)
(* rag_logs.                                                               *)
(***************************************************************************)
\* the gate if it also let a confidence of exactly 0.7 through
FastPathFromThreshold(local_results) == local_results.confidence >= 70

\* Step B: if local_results.get('confidence', 0.0) > 0.7
FastPath(local_results) == local_results.confidence > 70

\* the combination if uploaded files did not raise it
CombinedConfidenceOfSearches(local_confidence, web_confidence, has_files) ==
    Max(local_confidence, web_confidence)

\* final_confidence: max(local confidence, web confidence), and
\* max(final_confidence, 0.8) if file_info is not empty
CombinedConfidence(local_confidence, web_confidence, has_files) ==
    LET final_confidence == Max(local_confidence, web_confidence)
    IN IF has_files THEN Max(final_confidence, 80) ELSE final_confidence

\* the selection if it looked at the client only
UseGroqWheneverConfigured(client, final_confidence, combined_context) == client

\* if groq_client and (final_confidence > 0.3 or combined_context)
UseGroq(client, final_confidence, combined_context) ==
    client /\ (final_confidence > 30 \/ combined_context # <<>>)

\* the ChatResponse at the end of the try, built from the locals s of the
\* handler
SuccessResponse(s) ==
    ChatResponse(TRUE, s.response_text, s.all_sources, s.final_confidence,
                 IF s.endpoint = "respond" THEN "hybrid-rag-v2" ELSE "hybrid-rag-with-files")

\* the handler of the outer try if it gave up without calling the
\* deterministic strategy
ExceptResponseWithoutRetry(s, y) ==
    IF s.endpoint = "respond"
    THEN ChatResponse(FALSE, Apology, <<>>, 0, "minimal-fallback")
    ELSE ChatResponse(TRUE, FileErrorReply, <<Source(n_FileErr, None, t_fallback, 30)>>, 30,
                      "file-error-fallback")

\* the response of the handler of the outer try if /respond-with-files
\* reported the failure as /respond does in the last resort
ExceptResponseReportingFailure(s, y) ==
    IF s.endpoint = "respond"
    THEN LET fallback_response == generate_smart_fallback_response(s.message, <<>>, <<>>, y)
         IN IF fallback_response.ok
            THEN ChatResponse(TRUE, fallback_response.val,
                              <<Source(n_LocalKB, None, t_fallback, 50)>>, 50,
                              "emergency-fallback")
            ELSE ChatResponse(FALSE, Apology, <<>>, 0, "minimal-fallback")
    ELSE ChatResponse(FALSE, FileErrorReply, <<>>, 0, "file-error-fallback")

\* The ChatResponse of the handler of the outer try.  /respond calls the
\* deterministic strategy on the message alone and, when that raises too,
\* answers the apology; /respond-with-files answers a fixed text.
ExceptResponse(s, y) ==
    IF s.endpoint = "respond"
    THEN LET fallback_response == generate_smart_fallback_response(s.message, <<>>, <<>>, y)
         IN IF fallback_response.ok
            THEN ChatResponse(TRUE, fallback_response.val,
                              <<Source(n_LocalKB, None, t_fallback, 50)>>, 50,
                              "emergency-fallback")
            ELSE ChatResponse(FALSE, Apology, <<>>, 0, "minimal-fallback")
    ELSE ChatResponse(TRUE, FileErrorReply, <<Source(n_FileErr, None, t_fallback, 30)>>, 30,
                      "file-error-fallback")

\* a request arrives
Receive(r) ==
    /\ st[r].pc = "idle"
    /\ \E message \in RequestMessages, hint \in Hints :
          \/ st' = [st EXCEPT ![r] = [@ EXCEPT !.pc = "start", !.endpoint = "respond",
                                                !.message = message,
                                                !.university_name = hint]]
          \/ \E files \in Uploads :
                st' = [st EXCEPT ![r] = [@ EXCEPT !.pc = "start", !.endpoint = "files",
                                                   !.message = message,
                                                   !.university_name = hint,
                                                   !.files = files]]
    /\ UNCHANGED <<globals, rag_logs, loop>>

\* the local search if /respond-with-files applied the confidence gate of
\* /respond
LocalSearchGated(r) ==
    /\ st[r].pc = "start"
    /\ loop = "free"
    /\ loop' = r
    /\ IF st[r].endpoint = "respond"
       THEN LET local_results == search_local_knowledge(st[r].message, st[r].university_name)
                fast == FastPath(local_results)
            IN st' = [st EXCEPT ![r] = [@ EXCEPT
                      !.local_results = local_results,
                      !.all_sources = LocalSources(local_results),
                      !.combined_context = IF fast THEN JoinParts(LocalParts(local_results))
                                           ELSE @,
                      !.final_confidence = IF fast THEN local_results.confidence ELSE @,
                      !.trace = Append(@, "local"),
                      !.pc = IF fast THEN "synthesize" ELSE "web"]]
       ELSE LET enhanced_message == EnhancedMessage(st[r].message, st[r].files)
                local_results == search_local_knowledge(enhanced_message,
                                                        st[r].university_name)
            IN st' = [st EXCEPT ![r] = [@ EXCEPT
                      !.local_results = local_results,
                      !.trace = Append(@, "local"),
                      !.pc = IF FastPath(local_results) THEN "synthesize" ELSE "web"]]
    /\ UNCHANGED <<globals, rag_logs>>

\* Step A and the confidence gate of respond_to_query; the upload handling
\* and the local search of respond_with_files
LocalSearch(r) ==
    /\ st[r].pc = "start"
    /\ loop = "free"
    /\ loop' = r
    /\ IF st[r].endpoint = "respond"
       THEN LET local_results == search_local_knowledge(st[r].message, st[r].university_name)
                fast == FastPath(local_results)
            IN st' = [st EXCEPT ![r] = [@ EXCEPT
                      !.local_results = local_results,
                      !.all_sources = LocalSources(local_results),
                      !.combined_context = IF fast THEN JoinParts(LocalParts(local_results))
                                           ELSE @,
                      !.final_confidence = IF fast THEN local_results.confidence ELSE @,
                      !.trace = Append(@, "local"),
                      !.pc = IF fast THEN "synthesize" ELSE "web"]]
       ELSE LET enhanced_message == EnhancedMessage(st[r].message, st[r].files)
                local_results == search_local_knowledge(enhanced_message,
                                                        st[r].university_name)
            IN st' = [st EXCEPT ![r] = [@ EXCEPT
                      !.local_results = local_results,
                      !.trace = Append(@, "local"),
                      !.pc = "web"]]
    /\ UNCHANGED <<globals, rag_logs>>

\* Step C of respond_to_query and the web search of respond_with_files,
\* followed by the merge of the evidence; an exception out of the gateway
\* would reach the handler of the outer try
WebSearch(r) ==
    /\ st[r].pc = "web"
    /\ loop = r
    /\ \E reply \in ProviderReplies :
          LET call == search_web_realtime(reply, serpapi_key)
              web_results == call.val
              local_results == st[r].local_results
              has_files == st[r].files.file_info > 0
              \* the line "User uploaded ..." of the context
              user_uploaded == <<"U","s","e","r"," ","u","p","l","o","a","d","e","d">>
          IN IF ~call.ok
             THEN st' = [st EXCEPT ![r] = [@ EXCEPT !.trace = Append(@, "web"),
                                                    !.pc = "except"]]
             ELSE IF st[r].endpoint = "respond"
             THEN st' = [st EXCEPT ![r] = [@ EXCEPT
                         !.web_results = web_results,
                         !.all_sources = @ \o WebSources(web_results),
                         !.combined_context = JoinParts(LocalParts(local_results)
                                                        \o WebParts(web_results)),
                         !.final_confidence =
                             CombinedConfidence(local_results.confidence,
                                                web_results.confidence, FALSE),
                         !.trace = Append(@, "web"),
                         !.pc = "synthesize"]]
             ELSE st' = [st EXCEPT ![r] = [@ EXCEPT
                         !.web_results = web_results,
                         !.all_sources =
                             (IF has_files
                              THEN <<Source(n_Uploaded, None, t_user_files, 90)>>
                              ELSE <<>>)
                             \o LocalSources(local_results)
                             \o WebSourcesOfFiles(web_results),
                         !.combined_context =
                             JoinParts((IF has_files THEN <<user_uploaded>> ELSE <<>>)
                                       \o LocalParts(local_results)
                                       \o WebParts(web_results)),
                         !.final_confidence =
                             CombinedConfidence(local_results.confidence,
                                                web_results.confidence, has_files),
                         !.trace = Append(@, "web"),
                         !.pc = "synthesize"]]
    /\ UNCHANGED <<globals, rag_logs, loop>>

\* the synthesis if response_text were a variable of the module, shared by
\* the handlers, instead of a local of each
SynthesizeShared(r) ==
    /\ st[r].pc = "synthesize"
    /\ loop = r
    /\ \E llm \in LLMReplies :
          LET query == IF st[r].endpoint = "respond" THEN st[r].message
                       ELSE EnhancedMessage(st[r].message, st[r].files)
              context == st[r].combined_context
              sources == st[r].all_sources
              generative == UseGroq(groq_client, st[r].final_confidence, context)
              result == IF generative
                        THEN generate_response_with_groq(query, context, sources, year,
                                                         groq_client, llm)
                        ELSE generate_smart_fallback_response(query, context, sources, year)
              events == IF generative
                        THEN GroqEvents(query, context, sources, year, groq_client, llm)
                        ELSE <<"deterministic">>
              has_files == st[r].endpoint = "files" /\ st[r].files.file_info > 0
              response_text == IF ~result.ok THEN st[r].response_text
                               ELSE IF has_files THEN WithFileAnalysis(result.val)
                               ELSE result.val
          IN st' = [other \in DOMAIN st |->
                       IF other = r
                       THEN [st[r] EXCEPT !.response_text = response_text,
                                          !.trace = @ \o events,
                                          !.pc = IF result.ok THEN "persist" ELSE "except"]
                       ELSE [st[other] EXCEPT !.response_text = response_text]]
    /\ UNCHANGED <<globals, rag_logs, loop>>

\* the strategy selection and the synthesis
Synthesize(r) ==
    /\ st[r].pc = "synthesize"
    /\ loop = r
    /\ \E llm \in LLMReplies :
          LET query == IF st[r].endpoint = "respond" THEN st[r].message
                       ELSE EnhancedMessage(st[r].message, st[r].files)
              context == st[r].combined_context
              sources == st[r].all_sources
              generative == UseGroq(groq_client, st[r].final_confidence, context)
              result == IF generative
                        THEN generate_response_with_groq(query, context, sources, year,
                                                         groq_client, llm)
                        ELSE generate_smart_fallback_response(query, context, sources, year)
              events == IF generative
                        THEN GroqEvents(query, context, sources, year, groq_client, llm)
                        ELSE <<"deterministic">>
              has_files == st[r].endpoint = "files" /\ st[r].files.file_info > 0
          IN st' = [st EXCEPT ![r] = [@ EXCEPT
                    !.response_text = IF ~result.ok THEN @
                                      ELSE IF has_files THEN WithFileAnalysis(result.val)
                                      ELSE result.val,
                    !.trace = @ \o events,
                    !.pc = IF result.ok THEN "persist" ELSE "except"]]
    /\ UNCHANGED <<globals, rag_logs, loop>>

\* the document inserted into rag_logs
Turn(r) ==
    [request |-> r, query |-> st[r].message, response |-> st[r].response_text,
     confidence |-> st[r].final_confidence, sources |-> st[r].all_sources]

\* if db_client: the insert is started and the handler waits for it
Persist(r) ==
    /\ st[r].pc = "persist"
    /\ loop = r
    /\ IF db_client
       THEN /\ st' = [st EXCEPT ![r] = [@ EXCEPT !.pc = "insert"]]
            /\ loop' = "free"
       ELSE /\ st' = [st EXCEPT ![r] = [@ EXCEPT !.pc = "respond"]]
            /\ loop' = loop
    /\ UNCHANGED <<globals, rag_logs>>

\* the insert if its exception reached the handler of the outer try
InsertDoneSurfacing(r) ==
    /\ st[r].pc = "insert"
    /\ loop = "free"
    /\ loop' = r
    /\ \/ /\ rag_logs' = Append(rag_logs, Turn(r))
          /\ st' = [st EXCEPT ![r] = [@ EXCEPT !.insert = "stored", !.pc = "respond",
                                               !.trace = Append(@, "insert")]]
       \/ /\ rag_logs' = rag_logs
          /\ st' = [st EXCEPT ![r] = [@ EXCEPT !.insert = "failed", !.pc = "except",
                                               !.trace = Append(@, "insert")]]
    /\ UNCHANGED globals

\* the insert completes: the document is stored, or the call raises, which
\* the inner try only prints
InsertDone(r) ==
    /\ st[r].pc = "insert"
    /\ loop = "free"
    /\ loop' = r
    /\ \/ /\ rag_logs' = Append(rag_logs, Turn(r))
          /\ st' = [st EXCEPT ![r] = [@ EXCEPT !.insert = "stored", !.pc = "respond",
                                               !.trace = Append(@, "insert")]]
       \/ /\ rag_logs' = rag_logs
          /\ st' = [st EXCEPT ![r] = [@ EXCEPT !.insert = "failed", !.pc = "respond",
                                               !.trace = Append(@, "insert")]]
    /\ UNCHANGED globals

\* return ChatResponse(success=True, ...): the model validates its fields,
\* and a reply of None is not a str
Respond(r) ==
    /\ st[r].pc = "respond"
    /\ loop = r
    /\ IF st[r].response_text.kind = "None"
       THEN /\ st' = [st EXCEPT ![r] = [@ EXCEPT !.pc = "except"]]
            /\ loop' = loop
       ELSE /\ st' = [st EXCEPT ![r] = [@ EXCEPT
                      !.response = SuccessResponse(st[r]),
                      !.pc = "done"]]
            /\ loop' = "free"
    /\ UNCHANGED <<globals, rag_logs>>

\* the handler of the outer try
Except(r) ==
    /\ st[r].pc = "except"
    /\ loop = r
    /\ loop' = "free"
    /\ st' = [st EXCEPT ![r] = [@ EXCEPT
              !.response = ExceptResponse(st[r], year),
              !.trace = Append(@, IF st[r].endpoint = "respond" THEN "emergency"
                                  ELSE "file_error"),
              !.pc = "done"]]
    /\ UNCHANGED <<globals, rag_logs>>

Next ==
    \E r \in Requests :
        \/ Receive(r)
        \/ LocalSearch(r)
        \/ WebSearch(r)
        \/ Synthesize(r)
        \/ Persist(r)
        \/ InsertDone(r)
        \/ Respond(r)
        \/ Except(r)

Spec == Init /\ [][Next]_vars

(***************************************************************************)
(* The handlers under the scheduling of the event loop.  A step of the     *)
(* handler that only computes is taken once it can be.  A call of a        *)
(* collaborator ends when the collaborator answers or the call is given    *)
(* up: requests.get carries timeout=15, so the SerpAPI request always      *)
(* ends; DDGS().text, chat.completions.create and insert_one are called    *)
(* without a timeout, so nothing in the program makes them end.            *)
(*                                                                         *)
(* Weak fairness of a step A is []<>~ENABLED <<A>>_vars \/ []<><<A>>_vars; *)
(* it is written out with the guard of the step, which is what ENABLED     *)
(* amounts to, every step moving the pc of its request.                    *)
(***************************************************************************)
\* the handler of r holds the event loop at the position pc
Running(r, pc) == st[r].pc = pc /\ loop = r

Fairness ==
    \A r \in Requests :
        /\ []<>~(st[r].pc = "start" /\ loop = "free") \/ []<><<LocalSearch(r)>>_vars
        /\ []<>~(serpapi_key /\ Running(r, "web")) \/ []<><<WebSearch(r)>>_vars
        /\ []<>~(/\ Running(r, "synthesize")
                 /\ ~UseGroq(groq_client, st[r].final_confidence, st[r].combined_context))
           \/ []<><<Synthesize(r)>>_vars
        /\ WF_vars(Persist(r))
        /\ WF_vars(Respond(r))
        /\ []<>~Running(r, "except") \/ []<><<Except(r)>>_vars

SpecLive == Init /\ [][Next]_vars /\ Fairness

(***************************************************************************)
(* The local retriever on its own: every query of at most MaxSearchWords   *)
(* words with every hint.  The collaborators are not read.                 *)
(***************************************************************************)
SearchHints == {None, n_UG, n_UCC, n_Unknown}

InitLocal ==
    /\ groq_client = FALSE
    /\ db_client = FALSE
    /\ serpapi_key = FALSE
    /\ year \in Years
    /\ rag_logs = <<>>
    /\ loop = "free"
    /\ \E query \in Messages(Vocabulary, MaxSearchWords), hint \in SearchHints :
          st = [r \in Requests |-> [Fresh EXCEPT !.pc = "call", !.message = query,
                                                 !.university_name = hint]]

CallLocal(r) ==
    /\ st[r].pc = "call"
    /\ st' = [st EXCEPT ![r] = [@ EXCEPT
              !.local_results = search_local_knowledge(st[r].message,
                                                       st[r].university_name),
              !.trace = Append(@, "local"),
              !.pc = "returned"]]
    /\ UNCHANGED <<globals, rag_logs, loop>>

NextLocal == \E r \in Requests : CallLocal(r)

SpecLocal == InitLocal /\ [][NextLocal]_vars

(***************************************************************************)
(* The web search gateway on its own: every provider reply with each       *)
(* provider.                                                               *)
(***************************************************************************)
InitWeb ==
    /\ groq_client = FALSE
    /\ db_client = FALSE
    /\ serpapi_key \in BOOLEAN
    /\ year \in Years
    /\ rag_logs = <<>>
    /\ loop = "free"
    /\ \E query \in Messages(RequestWords, 1), reply \in GatewayReplies :
          st = [r \in Requests |-> [Fresh EXCEPT !.pc = "call", !.message = query,
                                                 !.reply = reply]]

CallWeb(r) ==
    /\ st[r].pc = "call"
    /\ LET call == search_web_realtime(st[r].reply, serpapi_key)
       IN st' = [st EXCEPT ![r] = [@ EXCEPT
                 !.web_results = call.val,
                 !.trace = Append(@, "web"),
                 !.pc = IF call.ok THEN "returned" ELSE "raised"]]
    /\ UNCHANGED <<globals, rag_logs, loop>>

NextWeb == \E r \in Requests : CallWeb(r)

SpecWeb == InitWeb /\ [][NextWeb]_vars

(***************************************************************************)
(* The two synthesis strategies on their own: every query of one word,     *)
(* with contexts and evidence lists that the handlers do and do not build. *)
(***************************************************************************)
SynthContexts ==
    { <<>>,
      <<LineUniversity>>,
      <<WebResultPrefix \o <<" ">> \o w_hello>>,
      <<LineUniversity, <<>>, WebResultPrefix \o <<" ">> \o w_fees>> }

SynthSources ==
    { Source(n_UG, None, t_local_knowledge, 98),
      Source(w_UG, url_official, t_official_website, 70),
      Source(None, url_other, t_web_search, 70),
      Source(n_Uploaded, None, t_user_files, 90) }

\* the queries of the synthesizer: every word, and a question about fees
\* that names the first and the second record
SynthQueries ==
    Messages(Vocabulary, 1)
    \cup {w_fees \o <<" ">> \o w_UG, w_fees \o <<" ">> \o w_knust}

InitSynth ==
    /\ groq_client \in BOOLEAN
    /\ db_client = FALSE
    /\ serpapi_key = FALSE
    /\ year \in TemplateYears
    /\ rag_logs = <<>>
    /\ loop = "free"
    /\ \E query \in SynthQueries, context \in SynthContexts,
          sources \in SeqsUpTo(SynthSources, MaxSynthSources) :
          st = [r \in Requests |-> [Fresh EXCEPT !.pc = "call", !.message = query,
                                                 !.combined_context = context,
                                                 !.all_sources = sources]]

\* generate_smart_fallback_response(query, context, sources)
CallFallback(r) ==
    /\ st[r].pc = "call"
    /\ LET call == generate_smart_fallback_response(st[r].message, st[r].combined_context,
                                                    st[r].all_sources, year)
       IN st' = [st EXCEPT ![r] = [@ EXCEPT
                 !.response_text = call.val,
                 !.trace = <<"fallback">>,
                 !.pc = IF call.ok THEN "returned" ELSE "raised"]]
    /\ UNCHANGED <<globals, rag_logs, loop>>

\* generate_response_with_groq(query, context, sources)
CallGroq(r) ==
    /\ st[r].pc = "call"
    /\ \E llm \in LLMReplies :
          LET call == generate_response_with_groq(st[r].message, st[r].combined_context,
                                                  st[r].all_sources, year, groq_client, llm)
          IN st' = [st EXCEPT ![r] = [@ EXCEPT
                    !.response_text = call.val,
                    !.trace = <<"groq">> \o GroqEvents(st[r].message,
                                  st[r].combined_context, st[r].all_sources, year,
                                  groq_client, llm),
                    !.pc = IF call.ok THEN "returned" ELSE "raised"]]
    /\ UNCHANGED <<globals, rag_logs, loop>>

NextSynth == \E r \in Requests : CallFallback(r) \/ CallGroq(r)

SpecSynth == InitSynth /\ [][NextSynth]_vars

(***************************************************************************)
(* Two requests to /respond in flight on the one event loop of the         *)
(* process: uvicorn.run(app, ...) serves every request from one loop, and  *)
(* a handler gives the loop up only where it awaits something that         *)
(* suspends, which is the insert into rag_logs.  The first request names   *)
(* a record and takes the fast path; the second takes either path.         *)
(***************************************************************************)
Pair == {"r1", "r2"}
PairMessages == {w_UG, w_scholarship}

InitPair ==
    /\ groq_client \in BOOLEAN
    /\ db_client \in BOOLEAN
    /\ serpapi_key \in BOOLEAN
    /\ year \in Years
    /\ rag_logs = <<>>
    /\ loop = "free"
    /\ \E message \in PairMessages :
          st = [r \in Pair |-> [Fresh EXCEPT !.pc = "start", !.endpoint = "respond",
                                             !.message = IF r = "r1" THEN w_UG
                                                         ELSE message]]

NextPair ==
    \E r \in Pair :
        \/ LocalSearch(r)
        \/ WebSearch(r)
        \/ Synthesize(r)
        \/ Persist(r)
        \/ InsertDone(r)
        \/ Respond(r)
        \/ Except(r)

SpecPair == InitPair /\ [][NextPair]_vars

(***************************************************************************)
(* Properties.                                                             *)
(***************************************************************************)
\* the number of occurrences of e in xs
Count(xs, e) == Cardinality({i \in DOMAIN xs : xs[i] = e})

\* the handler of r has ended and its response is in st[r].response
Ended(r) == st[r].pc = "done"

\* the try of the handler raised: the synthesis raised, which leaves
\* response_text unset, or the reply handed to ChatResponse was None
PrimaryRaised(r) == st[r].response_text.kind \in {"unset", "None"}

\* the completion call was made and raised: the deterministic strategy is
\* called right after it
LLMFailed(r) ==
    \E i \in 1..(Len(st[r].trace) - 1) :
        st[r].trace[i] = "llm" /\ st[r].trace[i + 1] = "deterministic"

\* the synthesis of the request is over
Synthesized(r) == st[r].pc \in {"persist", "insert", "respond", "except", "done"}

\* the documents of rag_logs written by the request r
TurnsOf(r) == Cardinality({i \in DOMAIN rag_logs : rag_logs[i].request = r})

----------------------------------------------------------------------------
\* C1: every /respond request that has ended carries a response object; the
\* response has success = false, confidence 0.0 and the static apology as
\* its reply exactly when the primary pipeline raised and the deterministic
\* fallback call of the handler raised as well, and in every other run it
\* has success = true.
C1_FailureOnlyWhenBothRaise ==
    \A r \in Requests :
        (st[r].endpoint = "respond" /\ Ended(r)) =>
            LET fallback == generate_smart_fallback_response(st[r].message, <<>>, <<>>, year)
                both == PrimaryRaised(r) /\ ~fallback.ok
                response == st[r].response
                failure == /\ ~response.success
                           /\ response.confidence = 0
                           /\ response.reply = Apology
            IN /\ response.model_used # "none"
               /\ failure <=> both
               /\ response.success <=> ~both

\* a /respond request whose pipeline and whose fallback both raised
C1_BothRaised ==
    \E r \in Requests :
        /\ st[r].endpoint = "respond" /\ Ended(r)
        /\ PrimaryRaised(r)
        /\ ~st[r].response.success

----------------------------------------------------------------------------
\* C2: a call of generate_smart_fallback_response never raises and never
\* returns an empty text, whatever the query, the context and the evidence,
\* in every template and for every shape of record in the knowledge store.
C2_FallbackAlwaysAnswers ==
    \A r \in Requests :
        st[r].trace = <<"fallback">> =>
            /\ st[r].pc = "returned"
            /\ st[r].response_text.segs # <<>>

----------------------------------------------------------------------------
\* C3: when the web gateway was called and came back with nothing, and the
\* LLM is absent or its call failed, the /respond request ends with
\* success = true and an answer of the deterministic strategy, with the
\* local items as its evidence list and the local confidence as its
\* confidence.
C3_DegradesToLocalEvidence ==
    \A r \in Requests :
        ( /\ st[r].endpoint = "respond" /\ Ended(r)
          /\ Count(st[r].trace, "web") = 1
          /\ st[r].web_results = EmptyWebResult
          /\ (~groq_client \/ LLMFailed(r)) ) =>
            /\ st[r].response.success
            /\ st[r].response.reply.kind = "deterministic"
            /\ st[r].response.sources = LocalSources(st[r].local_results)
            /\ st[r].response.confidence = st[r].local_results.confidence

----------------------------------------------------------------------------
\* C4: in a /respond request whose local confidence is above 0.7 the web
\* search gateway is never called; in one whose local confidence is 0.7 or
\* less it is called exactly once, right after the local search and before
\* any synthesis.
C4_ConfidenceGate ==
    \A r \in Requests :
        (st[r].endpoint = "respond" /\ Synthesized(r)) =>
            LET trace == st[r].trace
            IN IF st[r].local_results.confidence > 70
               THEN Count(trace, "web") = 0
               ELSE /\ Count(trace, "web") = 1
                    /\ Len(trace) >= 3
                    /\ trace[1] = "local"
                    /\ trace[2] = "web"
                    /\ trace[3] \in {"llm", "deterministic"}

\* a /respond request with a local confidence of exactly 0.70 that called
\* the gateway once
C4_GateAtBoundary ==
    \E r \in Requests :
        /\ st[r].endpoint = "respond" /\ Ended(r)
        /\ st[r].local_results.confidence = 70
        /\ st[r].local_results.results # <<>>
        /\ Count(st[r].trace, "web") = 1

----------------------------------------------------------------------------
\* C5: search_web_realtime never raises, with either provider; when the
\* provider cannot be reached, times out, answers something that is no
\* result listing, or answers no results, it returns an empty result list
\* with confidence 0.0.
C5_GatewayNeverRaises ==
    \A r \in Requests :
        st[r].trace = <<"web">> =>
            /\ st[r].pc = "returned"
            /\ (st[r].reply.kind \in {"unavailable", "timeout", "malformed"}
                \/ st[r].reply.items = <<>>)
               => st[r].web_results = EmptyWebResult

\* a SerpAPI request that timed out and came back as the empty result
C5_SerpapiTimeout ==
    \E r \in Requests :
        /\ st[r].trace = <<"web">>
        /\ serpapi_key
        /\ st[r].reply.kind = "timeout"
        /\ st[r].pc = "returned"
        /\ st[r].web_results = EmptyWebResult

----------------------------------------------------------------------------
\* C6: when the LLM is absent, or is configured and its completion call
\* fails, generate_response_with_groq ends as the deterministic strategy
\* ends for the same query, context and evidence: it returns exactly that
\* text, and it raises only where the deterministic strategy itself raises.
C6_GroqFallsBackToDeterministic ==
    \A r \in Requests :
        ( /\ st[r].trace # <<>>
          /\ Head(st[r].trace) = "groq"
          /\ (~groq_client \/ LLMFailed(r)) ) =>
            LET det == generate_smart_fallback_response(st[r].message,
                           st[r].combined_context, st[r].all_sources, year)
            IN /\ (st[r].pc = "returned") <=> det.ok
               /\ det.ok => st[r].response_text = det.val

\* a configured LLM whose call failed, answered by the deterministic text
C6_FailedCallAnswered ==
    \E r \in Requests :
        /\ groq_client
        /\ st[r].trace = <<"groq", "llm", "deterministic">>
        /\ st[r].pc = "returned"
        /\ st[r].response_text.kind = "deterministic"

----------------------------------------------------------------------------
\* C7: in every request, of either endpoint and on either path, the LLM is
\* called exactly when it is configured and the combined confidence is
\* above 0.3 or the combined context is not empty; otherwise the
\* deterministic strategy is called directly; the LLM is never called more
\* than once.
C7_StrategySelection ==
    \A r \in Requests :
        Synthesized(r) =>
            LET generative == /\ groq_client
                              /\ (st[r].final_confidence > 30 \/ st[r].combined_context # <<>>)
                trace == st[r].trace
                first == Len(trace) - Count(trace, "insert")
                             - Count(trace, "emergency") - Count(trace, "file_error")
                             - Count(trace, "llm") - Count(trace, "deterministic") + 1
            IN /\ Count(trace, "llm") = (IF generative THEN 1 ELSE 0)
               /\ trace[first] = (IF generative THEN "llm" ELSE "deterministic")
               /\ ~generative => Count(trace, "deterministic") = 1

\* a request with a configured LLM, no evidence and no confidence: the
\* deterministic strategy was called and the LLM was not
C7_ConfiguredButDeterministic ==
    \E r \in Requests :
        /\ Ended(r)
        /\ groq_client
        /\ st[r].final_confidence <= 30 /\ st[r].combined_context = <<>>
        /\ Count(st[r].trace, "llm") = 0
        /\ Count(st[r].trace, "deterministic") = 1

----------------------------------------------------------------------------
\* C8: the response of a request whose insert into rag_logs failed is the
\* response the handler builds from its locals, the same success flag,
\* reply, evidence list and confidence as when the insert succeeds.
C8_InsertFailureInvisible ==
    \A r \in Requests :
        (Ended(r) /\ st[r].insert \in {"stored", "failed"}) =>
            st[r].response = (IF st[r].response_text.kind = "None"
                              THEN ExceptResponse(st[r], year)
                              ELSE SuccessResponse(st[r]))

\* a request whose insert failed and which was answered from its locals
C8_FailedInsertAnswered ==
    \E r \in Requests :
        /\ Ended(r)
        /\ st[r].insert = "failed"
        /\ st[r].response.success
        /\ st[r].response.reply = st[r].response_text
        /\ st[r].response.sources # <<>>

----------------------------------------------------------------------------
\* C9: with the database configured and no insert failing, every request
\* that has ended, on the normal path or through the handler of the outer
\* try, has written exactly one document to rag_logs.
C9_OneTurnPerRequest ==
    \A r \in Requests :
        (Ended(r) /\ db_client /\ st[r].insert # "failed") => TurnsOf(r) = 1

----------------------------------------------------------------------------
\* C10: for every query and every hint search_local_knowledge returns a
\* confidence between 0 and 1, at most 3 results, and the results in an
\* order of non-increasing relevance.
C10_LocalResultsBounded ==
    \A r \in Requests :
        st[r].trace = <<"local">> =>
            LET results == st[r].local_results.results
            IN /\ st[r].local_results.confidence \in 0..100
               /\ Len(results) <= 3
               /\ \A i \in 1..(Len(results) - 1) :
                      results[i].relevance >= results[i + 1].relevance

\* a search in which the second record of the store outranks the first and
\* one of four scored records is left out
C10_ReorderedAndCut ==
    \E r \in Requests :
        /\ st[r].trace = <<"local">>
        /\ st[r].university_name = n_Unknown
        /\ Len(st[r].local_results.results) = 3
        /\ st[r].local_results.results[1].source = n_KNUST
        /\ st[r].local_results.results[2].source = n_UG
        /\ st[r].local_results.results[1].relevance > st[r].local_results.results[2].relevance

----------------------------------------------------------------------------
\* the hint is the name of a record of the knowledge store
HintKnown(r) ==
    \E i \in 1..Len(KnowledgeNames) : KnowledgeNames[i] = st[r].university_name

\* C11: when the hint names a record of the knowledge store, the item of
\* that record is the first result, has relevance 0.98, occurs exactly
\* once in the results, and is therefore kept by the cut to three,
\* whatever the other records score.
C11_HintedRecordFirst ==
    \A r \in Requests :
        (st[r].trace = <<"local">> /\ HintKnown(r)) =>
            LET results == st[r].local_results.results
            IN /\ results # <<>>
               /\ results[1].source = st[r].university_name
               /\ results[1].relevance = 98
               /\ Cardinality({i \in 1..Len(results) :
                                  results[i].source = st[r].university_name}) = 1

\* a search with a hinted record in which three other records score, two
\* of them at the cap, and the hinted record is still first
C11_HintedAheadOfCapped ==
    \E r \in Requests :
        /\ st[r].trace = <<"local">>
        /\ st[r].university_name = n_UCC
        /\ Len(st[r].local_results.results) = 3
        /\ st[r].local_results.results[1].source = n_UCC
        /\ st[r].local_results.results[2].relevance = 95
        /\ st[r].local_results.results[3].relevance = 95

----------------------------------------------------------------------------
\* C12: the confidence of a local search is 0.98 when a hinted or resolved
\* record was added, otherwise the largest relevance among the kept
\* records, otherwise 0.0; so it is 0.0 exactly when no record is returned.
C12_AggregateConfidence ==
    \A r \in Requests :
        st[r].trace = <<"local">> =>
            LET results == st[r].local_results.results
                confidence == st[r].local_results.confidence
                direct == \E i \in 1..Len(results) : results[i].relevance = 98
            IN /\ direct => confidence = 98
               /\ (~direct /\ results # <<>>) =>
                      /\ \E i \in 1..Len(results) : results[i].relevance = confidence
                      /\ \A i \in 1..Len(results) : results[i].relevance <= confidence
               /\ (confidence = 0) <=> (results = <<>>)

\* a search without a direct hit whose confidence is the relevance of its
\* best record, which is not the first record of the store
C12_ConfidenceOfBestRecord ==
    \E r \in Requests :
        /\ st[r].trace = <<"local">>
        /\ st[r].university_name = n_Unknown
        /\ st[r].local_results.results # <<>>
        /\ st[r].local_results.results[1].source = n_KNUST
        /\ st[r].local_results.confidence = st[r].local_results.results[1].relevance
        /\ st[r].local_results.confidence < 98

----------------------------------------------------------------------------
\* the evidence list holds an item of uploaded files
HasFileEvidence(r) ==
    \E i \in 1..Len(st[r].all_sources) : st[r].all_sources[i].type = t_user_files

\* C13: once the evidence is merged, the combined confidence is the larger
\* of the local and the web confidence, and when the evidence holds an
\* uploaded-file item it is that value raised to at least 0.8, whatever the
\* local and the web confidence are.
C13_CombinedConfidence ==
    \A r \in Requests :
        (Synthesized(r) \/ st[r].pc = "synthesize") =>
            LET local == st[r].local_results.confidence
                web == st[r].web_results.confidence
                larger == IF local >= web THEN local ELSE web
            IN IF HasFileEvidence(r)
               THEN /\ st[r].final_confidence >= 80
                    /\ st[r].final_confidence >= larger
                    /\ st[r].final_confidence \in {80, larger}
               ELSE st[r].final_confidence = larger

\* a request with an uploaded file whose local and web confidence are both
\* below 0.8 and whose combined confidence is 0.8
C13_RaisedByUpload ==
    \E r \in Requests :
        /\ Ended(r)
        /\ HasFileEvidence(r)
        /\ st[r].local_results.confidence < 80
        /\ st[r].web_results.confidence < 80
        /\ st[r].final_confidence = 80

----------------------------------------------------------------------------
\* the records whose name variations occur in the lower-cased message
AliasedRecords(r) ==
    {uni_name_variations[i][2] : i \in {j \in 1..Len(uni_name_variations) :
        Contains(Lower(st[r].message), uni_name_variations[j][1])}}

\* C14: a /respond request without a hint whose message contains a name
\* variation of a record gets that record as a direct hit, the first
\* result with relevance 0.98, a local confidence of 0.98, and takes the
\* fast path: the web search gateway is not called.
C14_AliasTakesFastPath ==
    \A r \in Requests :
        ( /\ st[r].endpoint = "respond"
          /\ st[r].pc \notin {"idle", "start"}
          /\ st[r].university_name = None
          /\ AliasedRecords(r) # {} ) =>
            /\ st[r].local_results.confidence = 98
            /\ st[r].local_results.results[1].source \in AliasedRecords(r)
            /\ st[r].local_results.results[1].relevance = 98
            /\ st[r].pc # "web"
            /\ Count(st[r].trace, "web") = 0

\* an answered /respond request without a hint whose message names the
\* first record by a variation
C14_AliasAnswered ==
    \E r \in Requests :
        /\ st[r].endpoint = "respond" /\ Ended(r)
        /\ st[r].university_name = None
        /\ n_UG \in AliasedRecords(r)
        /\ st[r].response.confidence = 98
        /\ st[r].trace[2] \in {"llm", "deterministic"}

----------------------------------------------------------------------------
\* a /respond request past its local search, without a hint, whose
\* lower-cased message contains no name variation and no high-value keyword
GenericQuery(r) ==
    /\ st[r].endpoint = "respond"
    /\ st[r].pc \notin {"idle", "start"}
    /\ st[r].university_name = None
    /\ AliasedRecords(r) = {}
    /\ \A i \in 1..Len(high_keywords) : ~Contains(Lower(st[r].message), high_keywords[i])

\* the standard keywords contained in the lower-cased message
KeywordsOf(r) ==
    {i \in 1..Len(keywords) : Contains(Lower(st[r].message), keywords[i])}

\* the local confidence is at most 0.7 and the gateway is called once,
\* between the local search and the synthesis
BelowGate(r) ==
    /\ st[r].local_results.confidence <= 70
    /\ Synthesized(r) => Count(st[r].trace, "web") = 1

\* C15 as stated: every query without a hint, a name variation or a
\* high-value keyword that contains a standard keyword has a local
\* confidence of at most 0.7 and calls the web gateway exactly once.
C15_GenericKeywordBelowGate ==
    \A r \in Requests :
        (GenericQuery(r) /\ KeywordsOf(r) # {}) => BelowGate(r)

\* C15: a query without a hint, a name variation or a high-value keyword
\* that contains exactly one standard keyword, none of whose words occurs
\* in the text of a program entry, and at most two of whose words of more
\* than 3 letters occur in a record, has a local confidence of at most 0.7
\* and calls the web gateway exactly once.
C15_SingleKeywordBelowGate ==
    \A r \in Requests :
        LET words == Split(Lower(st[r].message))
            names == DOMAIN GHANA_UNIVERSITIES_KNOWLEDGE(year)
        IN ( /\ GenericQuery(r)
             /\ Cardinality(KeywordsOf(r)) = 1
             /\ \A n \in names : \A j \in 1..Len(ProgramTexts(n)) :
                    \A k \in 1..Len(words) : words[k] \notin ProgramTexts(n)[j]
             /\ \A n \in names :
                    Cardinality({k \in 1..Len(words) :
                        Len(words[k]) > 3 /\ words[k] \in RecordText(n)}) <= 2 )
           => BelowGate(r)

\* an answered query for "scholarship": local confidence 0.5, one call of
\* the gateway
C15_ScholarshipGoesToWeb ==
    \E r \in Requests :
        /\ GenericQuery(r) /\ Ended(r)
        /\ st[r].message = w_scholarship
        /\ st[r].local_results.confidence = 50
        /\ Count(st[r].trace, "web") = 1

----------------------------------------------------------------------------
\* C16: in the response of every request that has ended, of /respond and
\* of /respond-with-files, on the normal path and in every fallback
\* response of the handlers, the confidence of the response and the
\* confidence of every item of its evidence list lie between 0.0 and 1.0.
C16_ConfidencesInUnitInterval ==
    \A r \in Requests :
        Ended(r) =>
            /\ st[r].response.confidence \in 0..100
            /\ \A i \in 1..Len(st[r].response.sources) :
                   st[r].response.sources[i].confidence \in 0..100

\* a successful response over a record whose additive relevance exceeded
\* 1.0 before the cap, listed with confidence 0.95
C16_CappedEvidence ==
    \E r \in Requests :
        /\ Ended(r) /\ st[r].response.success
        /\ \E i \in 1..Len(st[r].response.sources) :
               /\ st[r].response.sources[i].confidence = 95
               /\ Relevance(Lower(st[r].message), st[r].response.sources[i].source) > 100

----------------------------------------------------------------------------
\* C17: the result list returned by search_web_realtime never has more
\* than 8 items, however many items the provider answers, with either
\* provider.
C17_WebResultsCapped ==
    \A r \in Requests :
        st[r].trace = <<"web">> => Len(st[r].web_results.results) <= 8

----------------------------------------------------------------------------
\* C18: every request that has been received is eventually answered, even
\* when a collaborator never replies to a call of the handler.
C18_EveryRequestAnswered ==
    \A r \in Requests : (st[r].pc = "start") ~> Ended(r)

----------------------------------------------------------------------------
\* C19: while one request is waiting for the web search gateway or for
\* the synthesis, every other request in flight can take its next step: a
\* request that has been received can start its local search, and a
\* request whose insert is under way can have it completed.
C19_WaitDoesNotBlock ==
    \A r \in Pair : \A other \in Pair \ {r} :
        st[r].pc \in {"web", "synthesize"} =>
            /\ st[other].pc = "start" => ENABLED LocalSearch(other)
            /\ st[other].pc = "insert" => ENABLED InsertDone(other)

----------------------------------------------------------------------------
\* the synthesis part of the trace of r
SynthesisEvents(r) ==
    SelectSeq(st[r].trace, LAMBDA e : e \in {"llm", "deterministic"})

\* The response of the /respond request r, run alone, to its own message
\* and hint, with the gateway answering web_results and the LLM answering
\* llm: what the steps of respond_to_query compute from these alone.
RespondAlone(r, web_results, llm) ==
    LET local_results == search_local_knowledge(st[r].message, st[r].university_name)
        fast == FastPath(local_results)
        all_sources == LocalSources(local_results)
                       \o (IF fast THEN <<>> ELSE WebSources(web_results))
        combined_context == JoinParts(LocalParts(local_results)
                                      \o (IF fast THEN <<>> ELSE WebParts(web_results)))
        final_confidence == IF fast THEN local_results.confidence
                            ELSE CombinedConfidence(local_results.confidence,
                                                    web_results.confidence, FALSE)
        result == IF UseGroq(groq_client, final_confidence, combined_context)
                  THEN generate_response_with_groq(st[r].message, combined_context,
                                                   all_sources, year, groq_client, llm)
                  ELSE generate_smart_fallback_response(st[r].message, combined_context,
                                                        all_sources, year)
        locals == [Fresh EXCEPT !.endpoint = "respond",
                                !.message = st[r].message,
                                !.university_name = st[r].university_name,
                                !.local_results = local_results,
                                !.web_results = web_results,
                                !.all_sources = all_sources,
                                !.combined_context = combined_context,
                                !.final_confidence = final_confidence,
                                !.response_text = IF result.ok THEN result.val ELSE @]
    IN IF result.ok /\ result.val.kind # "None"
       THEN SuccessResponse(locals)
       ELSE ExceptResponse(locals, year)

\* C20: no step of a request changes the collaborator handles, and under
\* every interleaving of two requests the response of each is the response
\* it gets when run alone on its own message with the replies the gateway
\* and the LLM gave to it.
C20_RequestsIndependent ==
    /\ [][globals' = globals]_vars
    /\ [](\A r \in Pair :
            Ended(r) =>
                \E llm \in LLMReplies :
                    /\ SynthesisEvents(r) \in
                           {<<"deterministic">>,
                            GroqEvents(st[r].message, st[r].combined_context,
                                       st[r].all_sources, year, groq_client, llm)}
                    /\ st[r].response = RespondAlone(r, st[r].web_results, llm))

\* both requests answered, with different replies, the second having
\* been synthesized while the insert of the first was under way
C20_Interleaved ==
    /\ Ended("r1") /\ Ended("r2")
    /\ st["r1"].response.success /\ st["r2"].response.success
    /\ st["r1"].response.reply # st["r2"].response.reply
    /\ Len(rag_logs) = 2
    /\ rag_logs[1].request = "r2" /\ rag_logs[2].request = "r1"
    /\ st["r1"].trace[1] = "local" /\ st["r1"].insert = "stored"

----------------------------------------------------------------------------
\* C21: every record of which the lower-cased query contains a name
\* variation is returned with relevance 0.98, each of them when the query
\* names two or more records.
C21_EveryAliasedRecordDirect ==
    \A r \in Requests :
        st[r].trace = <<"local">> =>
            \A n \in AliasedRecords(r) :
                \E i \in 1..Len(st[r].local_results.results) :
                    /\ st[r].local_results.results[i].source = n
                    /\ st[r].local_results.results[i].relevance = 98

----------------------------------------------------------------------------
\* the seven standard keywords of the scoring rule: admission, fee, cost,
\* program, scholarship, contact, requirement
SevenKeywords ==
    <<w_admission, s_fee, s_cost, s_program, w_scholarship, s_contact, s_requirement>>

\* 0.4*P + 0.6*H + 0.3*S + 0.2*T for the record n, S counted over the seven
\* standard keywords
ScoreOfSeven(query_lower, n) ==
    LET words == Split(query_lower)
        P == Cardinality({j \in 1..Len(ProgramTexts(n)) :
                 \E k \in 1..Len(words) : words[k] \in ProgramTexts(n)[j]})
        H == Cardinality({j \in 1..Len(high_keywords) :
                 Contains(query_lower, high_keywords[j]) /\ high_keywords[j] \in RecordText(n)})
        S == Cardinality({j \in 1..Len(SevenKeywords) :
                 Contains(query_lower, SevenKeywords[j]) /\ SevenKeywords[j] \in RecordText(n)})
        T == Cardinality({k \in 1..Len(words) :
                 Len(words[k]) > 3 /\ words[k] \in RecordText(n)})
    IN 40 * P + 60 * H + 30 * S + 20 * T

\* C22: the relevance of every returned record that is not a direct hit is
\* min(0.95, 0.4*P + 0.6*H + 0.3*S + 0.2*T), each of the seven standard
\* keywords counting once.
C22_ScoreOfSevenKeywords ==
    \A r \in Requests :
        st[r].trace = <<"local">> =>
            \A i \in 1..Len(st[r].local_results.results) :
                LET item == st[r].local_results.results[i]
                IN item.relevance # 98 =>
                       item.relevance = Min(95, ScoreOfSeven(Lower(st[r].message), item.source))

----------------------------------------------------------------------------
\* C23: every returned record other than the hinted or resolved one has a
\* relevance above 0.4 and of at most 0.95; a record whose additive score
\* is 0.4 or less is not returned, and one whose score exceeds 0.95 is
\* returned with 0.95.
C23_ScannedRelevanceRange ==
    \A r \in Requests :
        st[r].trace = <<"local">> =>
            LET query_lower == Lower(st[r].message)
                resolved == ResolveUniversity(query_lower, st[r].university_name)
                results == st[r].local_results.results
            IN \A i \in 1..Len(results) :
                   results[i].source # resolved =>
                       /\ results[i].relevance > 40
                       /\ results[i].relevance <= 95
                       /\ Relevance(query_lower, results[i].source) > 40
                       /\ Relevance(query_lower, results[i].source) > 95
                              => results[i].relevance = 95

\* a search in which one record scores exactly 0.4 and is left out, and
\* another scores more and is returned
C23_ExactlyAtThresholdLeftOut ==
    \E r \in Requests :
        /\ st[r].trace = <<"local">>
        /\ st[r].university_name = None
        /\ Relevance(Lower(st[r].message), n_UCC) = 40
        /\ st[r].local_results.results # <<>>
        /\ \A i \in 1..Len(st[r].local_results.results) :
               st[r].local_results.results[i].source # n_UCC

----------------------------------------------------------------------------
\* the bullets of an answer text
BulletsOf(text) == SelectSeq(text.segs, LAMBDA s : s.seg = "bullet")

\* a link of one of the official domains
OfficialUrl(url) == \E d \in ddg_official_domains : Contains(Lower(url), d)

\* C24: when the evidence holds n >= 1 web or official-website items, the
\* deterministic answer is the bullet list, with min(n, 5) bullets, those
\* of the official domains before the others.
C24_BulletForEveryWebItem ==
    \A r \in Requests :
        LET n == Len(SelectSeq(st[r].all_sources, LAMBDA s :
                     s.type \in {t_web_search, t_official_website}))
            bullets == BulletsOf(st[r].response_text)
        IN (st[r].trace = <<"fallback">> /\ n >= 1) =>
               /\ st[r].pc = "returned"
               /\ Len(bullets) = Min(n, 5)
               /\ \A i \in 1..Len(bullets) : \A j \in 1..Len(bullets) :
                      (OfficialUrl(bullets[i].url) /\ ~OfficialUrl(bullets[j].url)) => i < j

----------------------------------------------------------------------------
\* C25: when the provider answers a listing in which some items are
\* mappings and some are not, the gateway returns the items that are
\* mappings, in their order and with a confidence above 0, and drops only
\* the others, with either provider (listings of at most 5 items, which no
\* cut shortens).
C25_MalformedItemSkipped ==
    \A r \in Requests :
        LET well_formed == SelectSeq(st[r].reply.items, LAMBDA item : item.dict)
            results == st[r].web_results.results
        IN ( /\ st[r].trace = <<"web">>
             /\ st[r].reply.kind = "items"
             /\ Len(st[r].reply.items) <= 5
             /\ well_formed # <<>> ) =>
               /\ st[r].web_results.confidence > 0
               /\ Len(results) = Len(well_formed)
               /\ \A i \in 1..Len(results) : results[i].url = well_formed[i].url

----------------------------------------------------------------------------
\* C26: whenever a document has been inserted into rag_logs for a /respond
\* request, the response returned for that request carries the answer text
\* and the confidence of the document.
C26_ResponseMatchesLoggedTurn ==
    \A r \in Requests :
        (st[r].endpoint = "respond" /\ Ended(r)) =>
            \A i \in 1..Len(rag_logs) :
                rag_logs[i].request = r =>
                    /\ st[r].response.reply = rag_logs[i].response
                    /\ st[r].response.confidence = rag_logs[i].confidence

----------------------------------------------------------------------------
\* a query of each keyword category that names no record
CategoryQuery(template) ==
    CASE template = "computer" -> w_computer
      [] template = "fees" -> w_fees
      [] template = "admission" -> w_admission
      [] OTHER -> w_hello

\* the call of r was given no web or official-website item and no
\* "Web Result:" line
NoWebEvidence(r) ==
    /\ \A i \in 1..Len(st[r].all_sources) :
           st[r].all_sources[i].type \notin {t_web_search, t_official_website}
    /\ \A i \in 1..Len(st[r].combined_context) :
           ~StartsWith(st[r].combined_context[i], WebResultPrefix)

\* C27: without web evidence the deterministic strategy ends, for every
\* query, context and local evidence, as it ends for the bare keyword of
\* the category of the query with no context and no evidence: the same
\* text, or an exception where that call raises.  So two calls whose
\* queries are of one category end alike, whatever records the queries
\* name and whatever local evidence and context they are given.
C27_AnswerOfCategoryOnly ==
    \A r \in Requests :
        (st[r].trace = <<"fallback">> /\ NoWebEvidence(r)) =>
            LET bare == generate_smart_fallback_response(
                            CategoryQuery(Template(Lower(st[r].message))), <<>>, <<>>, year)
            IN /\ (st[r].pc = "returned") <=> bare.ok
               /\ bare.ok => st[r].response_text = bare.val

\* a question about fees that names a record, asked with local evidence
\* and a context line, answered with the fees template
C27_NamedRecordSameText ==
    \E r \in Requests :
        /\ st[r].trace = <<"fallback">> /\ NoWebEvidence(r)
        /\ st[r].pc = "returned"
        /\ n_KNUST \in AliasedRecords(r)
        /\ st[r].all_sources # <<>>
        /\ st[r].combined_context # <<>>
        /\ st[r].response_text.segs[1].seg = "fees_header"

----------------------------------------------------------------------------
\* C28: a /respond-with-files request whose retrieval is over has called
\* the local search first and the web search gateway second, the gateway
\* exactly once, whatever the local confidence.
C28_FilesAlwaysSearchWeb ==
    \A r \in Requests :
        (st[r].endpoint = "files" /\ (Synthesized(r) \/ st[r].pc = "synthesize")) =>
            /\ Len(st[r].trace) >= 2
            /\ st[r].trace[1] = "local"
            /\ st[r].trace[2] = "web"
            /\ Count(st[r].trace, "web") = 1
            /\ Count(st[r].trace, "local") = 1

\* an answered /respond-with-files request with a local confidence above
\* the gate of /respond and one call of the gateway
C28_WebDespiteHighConfidence ==
    \E r \in Requests :
        /\ st[r].endpoint = "files" /\ Ended(r)
        /\ st[r].response.success
        /\ st[r].local_results.confidence > 70
        /\ Count(st[r].trace, "web") = 1

----------------------------------------------------------------------------
\* the handler of the outer try of /respond-with-files answered r
FileErrorAnswered(r) ==
    /\ st[r].endpoint = "files" /\ Ended(r)
    /\ Count(st[r].trace, "file_error") = 1

\* success = true, confidence 0.3, the single fallback evidence item, and
\* no second call of a synthesis strategy
FileErrorResponse(r) ==
    /\ st[r].response.success
    /\ st[r].response.confidence = 30
    /\ Len(st[r].response.sources) = 1
    /\ st[r].response.sources[1].type = t_fallback
    /\ st[r].response.sources[1].confidence = 30
    /\ Count(st[r].trace, "deterministic") <= 1
    /\ Count(st[r].trace, "emergency") = 0
    /\ st[r].trace[Len(st[r].trace)] = "file_error"

----------------------------------------------------------------------------
\* C30: with a hint that is not empty and names no record of the store, no
\* record is a direct hit, even when the query contains a name variation:
\* every returned record carries its additive score, capped at 0.95, and
\* the confidence is the largest of them, never 0.98.
C30_UnknownHintNoDirectHit ==
    \A r \in Requests :
        ( /\ st[r].trace = <<"local">>
          /\ st[r].university_name # None
          /\ ~HintKnown(r) ) =>
            LET results == st[r].local_results.results
            IN /\ st[r].local_results.confidence <= 95
               /\ \A i \in 1..Len(results) :
                      /\ results[i].relevance =
                             Min(95, Relevance(Lower(st[r].message), results[i].source))
                      /\ results[i].relevance > 40
               /\ \A n \in AliasedRecords(r) :
                      Relevance(Lower(st[r].message), n) <= 40 =>
                          \A i \in 1..Len(results) : results[i].source # n

\* a search with an unknown hint whose query names the first record and
\* asks about fees: the record is returned with the capped score
C30_AliasIgnoredUnderHint ==
    \E r \in Requests :
        /\ st[r].trace = <<"local">>
        /\ st[r].university_name = n_Unknown
        /\ n_UG \in AliasedRecords(r)
        /\ st[r].local_results.results # <<>>
        /\ st[r].local_results.results[1].source = n_UG
        /\ st[r].local_results.confidence = 95
====
